---- MODULE Spec2Model ----
(***************************************************************************)
(* The Lua lexer of src/src/parser/token.rs: TokenEnum (a logos lexer),    *)
(* its callbacks and TokenEnum::try_lexer, as a state machine.             *)
(*                                                                         *)
(* Text is a sequence of one-character strings; offsets are 0-based and    *)
(* a span <<s, e>> is the half-open range s..e, as logos::Span.            *)
(***************************************************************************)
EXTENDS Integers, Sequences, FiniteSets, TLC

VARIABLES
    file_ok,        \* whether File::open(lua_path) succeeds
    file_text,      \* the text of the file on disk
    content,        \* try_lexer's `content`, the lexer's source
    pc,             \* "start" | "scan" | "done" | "io_error"
    token_end,      \* the lexer's cursor: the end of the last item's span
    extras,         \* lex.extras: TokenExtras
    token_list,     \* try_lexer's token_list
    stdout,         \* everything printed, in order
    result          \* the value try_lexer returns: <<>> before, <<n>> for Ok(n)

vars == <<file_ok, file_text, content, pc, token_end, extras, token_list,
          stdout, result>>

----------------------------------------------------------------------------
(* Characters *)

Digits == {"0", "1", "2", "3", "4", "5", "6", "7", "8", "9"}

Lower == {"a", "b", "c", "d", "e", "f", "g", "h", "i", "j", "k", "l", "m",
          "n", "o", "p", "q", "r", "s", "t", "u", "v", "w", "x", "y", "z"}

Upper == {"A", "B", "C", "D", "E", "F", "G", "H", "I", "J", "K", "L", "M",
          "N", "O", "P", "Q", "R", "S", "T", "U", "V", "W", "X", "Y", "Z"}

\* [_a-zA-Z] and [_0-9a-zA-Z] of the Name rule
NameStart == Lower \cup Upper \cup {"_"}
NameChar == NameStart \cup Digits

\* [ \t] of the Skip rule
Blank == {" ", "\t"}

\* [\n\f\r] of the Line rule, excluded by the Comment rule's [^\n\f\r]
Terminator == {"\n", "\f", "\r"}

\* The character at offset p of the source, "" past its end.
At(p) == IF p >= 0 /\ p < Len(content) THEN content[p + 1] ELSE ""

\* The source text of a span: &lex.source()[span]
Slice(s, e) == SubSeq(content, s + 1, e)

\* The number of consecutive characters from offset p that are in S: S+ or S*.
RECURSIVE RunLen(_, _)
RunLen(p, S) == IF At(p) \in S THEN 1 + RunLen(p + 1, S) ELSE 0

\* The number of consecutive characters from offset p that are not in S.
RECURSIVE RunLenNot(_, _)
RunLenNot(p, S) ==
    IF p < Len(content) /\ At(p) \notin S THEN 1 + RunLenNot(p + 1, S) ELSE 0

\* Whether the source holds the text t at offset p.
HasText(p, t) ==
    /\ p + Len(t) <= Len(content)
    /\ \A i \in 1..Len(t) : content[p + i] = t[i]

----------------------------------------------------------------------------
(* The rules of TokenEnum: the length each matches at offset p, 0 for none *)

\* #[regex(r"[ \t]+")] Skip
SkipLen(p) == RunLen(p, Blank)

\* #[regex(r"(\r\n)|[\n\f\r]", line)] Line
LineLen(p) ==
    IF At(p) = "\r" /\ At(p + 1) = "\n" THEN 2
    ELSE IF At(p) \in Terminator THEN 1 ELSE 0

\* #[regex(r"--[^\n\f\r]*", string_lexer)] Comment
CommentLen(p) ==
    IF HasText(p, <<"-", "-">>) THEN 2 + RunLenNot(p + 2, Terminator) ELSE 0

\* #[regex(r"[_a-zA-Z][_0-9a-zA-Z]*", parse_lexer)] Name
NameLen(p) == IF At(p) \in NameStart THEN 1 + RunLen(p + 1, NameChar) ELSE 0

\* #[regex("(0x)?[0-9]+", u64_lexer)] Int: the digits after 0x are [0-9] too
IntLen(p) ==
    LET plain == RunLen(p, Digits)
        hex == IF HasText(p, <<"0", "x">>) THEN RunLen(p + 2, Digits) ELSE 0
    IN  IF hex > 0 THEN 2 + hex ELSE plain

\* ([eE][+-]?[0-9]+)? at offset q: the exponent's length, 0 when absent
ExpLen(q) ==
    IF At(q) \in {"e", "E"}
    THEN LET sign == IF At(q + 1) \in {"+", "-"} THEN 1 ELSE 0
             d == RunLen(q + 1 + sign, Digits)
         IN  IF d > 0 THEN 1 + sign + d ELSE 0
    ELSE 0

Max(a, b) == IF a >= b THEN a ELSE b

\* #[regex(r"([0-9]*\.[0-9]+(exp)?)|([0-9]+\.[0-9]*(exp)?)|([0-9]+exp)",
\*         parse_lexer)] Float
FloatLen(p) ==
    LET d1 == RunLen(p, Digits)
        dot == At(p + d1) = "."
        d2 == IF dot THEN RunLen(p + d1 + 1, Digits) ELSE 0
        body == d1 + 1 + d2
        withDot == IF dot /\ (d1 > 0 \/ d2 > 0)
                   THEN body + ExpLen(p + body) ELSE 0
        e == ExpLen(p + d1)
        noDot == IF d1 > 0 /\ e > 0 THEN d1 + e ELSE 0
    IN  Max(withDot, noDot)

\* The body of a quoted string from offset i, after the opening quote q:
\* ([^q\\]|\\.|qq)*q. `best` is the end of the longest match so far (0: none);
\* `.` matches any character but "\n".
RECURSIVE QuotedEnd(_, _, _)
QuotedEnd(i, q, best) ==
    IF i >= Len(content) THEN best
    ELSE IF At(i) = q
         THEN IF At(i + 1) = q THEN QuotedEnd(i + 2, q, i + 1) ELSE i + 1
    ELSE IF At(i) = "\\"
         THEN IF i + 1 < Len(content) /\ At(i + 1) # "\n"
              THEN QuotedEnd(i + 2, q, best) ELSE best
    ELSE QuotedEnd(i + 1, q, best)

\* #[regex(r#""([^"\\]|\\.|"")*""#, string_lexer)]
\* #[regex(r#"'([^'\\]|\\.|'')*'"#, string_lexer)] QuotedString
QuotedLen(p) ==
    IF At(p) \in {"\"", "'"}
    THEN LET e == QuotedEnd(p + 1, At(p), 0) IN IF e > 0 THEN e - p ELSE 0
    ELSE 0

\* The #[token(...)] rules, in declaration order.
TextRules == <<
    [kind |-> "Equal", text |-> <<"=">>],
    [kind |-> "Plus", text |-> <<"+">>],
    [kind |-> "Sub", text |-> <<"-">>],
    [kind |-> "Mul", text |-> <<"*">>],
    [kind |-> "Div", text |-> <<"/">>],
    [kind |-> "DivToInt", text |-> <<"/", "/">>],
    [kind |-> "Semicolon", text |-> <<";">>],
    [kind |-> "Comma", text |-> <<",">>],
    [kind |-> "DoubleDot", text |-> <<".", ".">>],
    [kind |-> "Dot", text |-> <<".">>],
    [kind |-> "Gt", text |-> <<">">>],
    [kind |-> "Lt", text |-> <<"<">>],
    [kind |-> "ParenthesesLeft", text |-> <<"(">>],
    [kind |-> "ParenthesesRight", text |-> <<")">>],
    [kind |-> "Function", text |-> <<"f", "u", "n", "c", "t", "i", "o", "n">>],
    [kind |-> "End", text |-> <<"e", "n", "d">>],
    [kind |-> "Local", text |-> <<"l", "o", "c", "a", "l">>],
    [kind |-> "Break", text |-> <<"b", "r", "e", "a", "k">>],
    [kind |-> "Do", text |-> <<"d", "o">>],
    [kind |-> "While", text |-> <<"w", "h", "i", "l", "e">>],
    [kind |-> "If", text |-> <<"i", "f">>],
    [kind |-> "Else", text |-> <<"e", "l", "s", "e">>],
    [kind |-> "Elseif", text |-> <<"e", "l", "s", "e", "i", "f">>],
    [kind |-> "Then", text |-> <<"t", "h", "e", "n">>],
    [kind |-> "Repeat", text |-> <<"r", "e", "p", "e", "a", "t">>],
    [kind |-> "Until", text |-> <<"u", "n", "t", "i", "l">>],
    [kind |-> "For", text |-> <<"f", "o", "r">>],
    [kind |-> "Goto", text |-> <<"g", "o", "t", "o">>],
    [kind |-> "And", text |-> <<"a", "n", "d">>],
    [kind |-> "Or", text |-> <<"o", "r">>],
    [kind |-> "Bool", text |-> <<"t", "r", "u", "e">>],
    [kind |-> "Bool", text |-> <<"f", "a", "l", "s", "e">>] >>

\* The #[regex(...)] rules, in declaration order.
RegexKinds == <<"Skip", "Line", "Comment", "Name", "Int", "Float",
                "QuotedString">>

RegexLen(kind, p) ==
    CASE kind = "Skip" -> SkipLen(p)
      [] kind = "Line" -> LineLen(p)
      [] kind = "Comment" -> CommentLen(p)
      [] kind = "Name" -> NameLen(p)
      [] kind = "Int" -> IntLen(p)
      [] kind = "Float" -> FloatLen(p)
      [] kind = "QuotedString" -> QuotedLen(p)

\* No rule matches.
NoMatch == [kind |-> "", len |-> 0, text |-> FALSE]

\* Every rule that matches at offset p, with the length it matches.
Candidates(p) ==
    {[kind |-> TextRules[i].kind, len |-> Len(TextRules[i].text), text |-> TRUE] :
        i \in {j \in DOMAIN TextRules : HasText(p, TextRules[j].text)}}
    \cup
    {r \in {[kind |-> RegexKinds[i], len |-> RegexLen(RegexKinds[i], p),
              text |-> FALSE] : i \in DOMAIN RegexKinds} : r.len > 0}

\* Fault variant of Match: among the longest matches the #[regex] rule wins,
\* so a reserved word is lexed by the Name rule.
MatchRegexFirst(p) ==
    LET cands == Candidates(p)
        Better(a, b) == a.len > b.len \/ (a.len = b.len /\ ~a.text /\ b.text)
    IN  IF cands = {} THEN NoMatch
        ELSE CHOOSE c \in cands : \A d \in cands \ {c} : Better(c, d)

\* The derived lexer's choice at offset p: the longest match, and of two rules
\* matching the same text the one of higher priority. logos gives a literal
\* two points a byte and a repeated class two points in all, so a #[token]
\* (two bytes or more whenever a #[regex] can match the same text) wins.
Match(p) ==
    LET cands == Candidates(p)
        Better(a, b) == a.len > b.len \/ (a.len = b.len /\ a.text /\ ~b.text)
    IN  IF cands = {} THEN NoMatch
        ELSE CHOOSE c \in cands : \A d \in cands \ {c} : Better(c, d)

\* Where the cursor stands after an item that no rule matches: one character
\* on when no rule starts with it; for a quoted string that never closes, as
\* far as the string rule read (the generated lexer bumps the cursor while it
\* reads and reports the error where it stops). None of the files scanned
\* below leaves a quote open.
RECURSIVE QuotedStuck(_, _)
QuotedStuck(i, q) ==
    IF i >= Len(content) THEN Len(content)
    ELSE IF At(i) = "\\"
         THEN IF i + 1 < Len(content) /\ At(i + 1) # "\n"
              THEN QuotedStuck(i + 2, q) ELSE i + 1
    ELSE QuotedStuck(i + 1, q)

ErrorEnd(p) ==
    IF At(p) \in {"\"", "'"} THEN QuotedStuck(p + 1, At(p)) ELSE p + 1

----------------------------------------------------------------------------
(* u64::from_str_radix. A TLC integer is 32 bits wide, so a u64 is held as  *)
(* its digits in base 10000, least significant first and without leading   *)
(* zeros: 42 is <<42>>, 0 is <<>>, 123456 is <<3456, 12>>.                  *)

\* u64::MAX = 1844 6744 0737 0955 1615
U64Max == <<1615, 955, 737, 6744, 1844>>

\* n * radix + carry
RECURSIVE MulAdd(_, _, _)
MulAdd(n, radix, carry) ==
    IF n = <<>>
    THEN IF carry = 0 THEN <<>> ELSE <<carry>>
    ELSE LET t == Head(n) * radix + carry
         IN  <<t % 10000>> \o MulAdd(Tail(n), radix, t \div 10000)

\* a <= b for two numbers of the same number of digits, compared from the
\* most significant digit, at index i, down
RECURSIVE LeqFrom(_, _, _)
LeqFrom(a, b, i) ==
    IF i = 0 THEN TRUE
    ELSE IF a[i] # b[i] THEN a[i] < b[i]
    ELSE LeqFrom(a, b, i - 1)

FitsU64(n) ==
    \/ Len(n) < Len(U64Max)
    \/ Len(n) = Len(U64Max) /\ LeqFrom(n, U64Max, Len(n))

HexDigits == <<"0", "1", "2", "3", "4", "5", "6", "7", "8", "9",
               "a", "b", "c", "d", "e", "f">>

HexDigitsUpper == <<"0", "1", "2", "3", "4", "5", "6", "7", "8", "9",
                    "A", "B", "C", "D", "E", "F">>

\* char::to_digit(radix): the digit's value, -1 when c is no digit of radix
ToDigit(c, radix) ==
    LET at == {i \in 1..radix : HexDigits[i] = c \/ HexDigitsUpper[i] = c}
    IN  IF at = {} THEN -1 ELSE (CHOOSE i \in at : TRUE) - 1

\* The digits of x from index i on, folded into acc; checked_mul and
\* checked_add fail past u64::MAX.
RECURSIVE FoldDigits(_, _, _, _)
FoldDigits(x, i, radix, acc) ==
    IF i > Len(x) THEN [ok |-> TRUE, v |-> acc, err |-> ""]
    ELSE LET d == ToDigit(x[i], radix)
         IN  IF d < 0
             THEN [ok |-> FALSE, v |-> <<>>,
                   err |-> "invalid digit found in string"]
             ELSE LET n == MulAdd(acc, radix, d)
                  IN  IF FitsU64(n) THEN FoldDigits(x, i + 1, radix, n)
                      ELSE [ok |-> FALSE, v |-> <<>>,
                            err |-> "number too large to fit in target type"]

from_str_radix(x, radix) ==
    IF x = <<>>
    THEN [ok |-> FALSE, v |-> <<>>, err |-> "cannot parse integer from empty string"]
    ELSE FoldDigits(x, 1, radix, <<>>)

----------------------------------------------------------------------------
(* Tokens. A produced item is [kind, tok]: tok is <<>> for the unit variant *)
(* Skip and <<Token>> for the others, Token being [line, span, v]. The      *)
(* payload v is a sequence: <<>> for (), the characters of a String, the    *)
(* base-10000 digits of a u64 (42 is <<42>>), <<b>> for a bool and          *)
(* <<digits, exponent>> for an f64.                                         *)

\* Token::new(v, span, line)
Token(v, span, line) == [line |-> line, span |-> span, v |-> v]

\* TokenEnum::is_separate: the kinds of the match arm; `_ => false`
is_separate(kind) ==
    kind \in {"Skip", "Line", "Comment", "Equal", "Plus", "Semicolon", "Comma",
              "DoubleDot", "ParenthesesLeft", "Gt", "Lt", "Sub", "Mul", "Div",
              "DivToInt", "QuotedString", "ParenthesesRight"}

\* str::replace("\\", ""): every backslash removed
RECURSIVE RemoveBackslashes(_)
RemoveBackslashes(x) ==
    IF x = <<>> THEN <<>>
    ELSE IF Head(x) = "\\" THEN RemoveBackslashes(Tail(x))
    ELSE <<Head(x)>> \o RemoveBackslashes(Tail(x))

\* string_lexer, the callback of Comment and of QuotedString:
\* x[..x.len() - 1].replace("\\", "")
string_lexer(x, span, line) ==
    Token(RemoveBackslashes(SubSeq(x, 1, Len(x) - 1)), span, line)

\* u64_lexer up to its match: the prefix stripped, the radix chosen, the
\* digits parsed. [ok, v, err]
u64_lexer(x) ==
    IF Len(x) >= 2 /\ SubSeq(x, 1, 2) = <<"0", "x">>
    THEN from_str_radix(SubSeq(x, 3, Len(x)), 16)
    ELSE from_str_radix(x, 10)

RECURSIVE DropLeadingZeros(_)
DropLeadingZeros(d) ==
    IF d # <<>> /\ Head(d) = 0 THEN DropLeadingZeros(Tail(d)) ELSE d

\* A small decimal number as an integer (an exponent's digits).
RECURSIVE SmallInt(_, _)
SmallInt(x, acc) ==
    IF x = <<>> THEN acc ELSE SmallInt(Tail(x), acc * 10 + ToDigit(Head(x), 10))

\* digits * 10^e with the trailing zeros of digits moved into e; zero is
\* <<<<>>, 0>>
RECURSIVE Normalize(_, _)
Normalize(digs, e) ==
    IF digs = <<>> THEN <<<<>>, 0>>
    ELSE IF digs[Len(digs)] = 0 THEN Normalize(SubSeq(digs, 1, Len(digs) - 1), e + 1)
    ELSE <<digs, e>>

\* str::parse::<f64> on a slice of the Float rule, which always parses: the
\* value as <<significant decimal digits, power of ten>>, binary rounding
\* left out.
ParseFloat(x) ==
    LET n == Len(x)
        ePos == {i \in 1..n : x[i] \in {"e", "E"}}
        mEnd == IF ePos = {} THEN n ELSE (CHOOSE i \in ePos : TRUE) - 1
        dPos == {i \in 1..mEnd : x[i] = "."}
        iEnd == IF dPos = {} THEN mEnd ELSE (CHOOSE i \in dPos : TRUE) - 1
        int == SubSeq(x, 1, iEnd)
        frac == IF dPos = {} THEN <<>> ELSE SubSeq(x, iEnd + 2, mEnd)
        eTxt == IF ePos = {} THEN <<>> ELSE SubSeq(x, mEnd + 2, n)
        neg == eTxt # <<>> /\ Head(eTxt) = "-"
        eDig == IF eTxt # <<>> /\ Head(eTxt) \in {"+", "-"} THEN Tail(eTxt) ELSE eTxt
        e == IF neg THEN 0 - SmallInt(eDig, 0) ELSE SmallInt(eDig, 0)
        all == int \o frac
        digs == DropLeadingZeros([i \in 1..Len(all) |-> ToDigit(all[i], 10)])
    IN  Normalize(digs, e - Len(frac))

\* parse_lexer up to its match, for the target type of the rule's variant:
\* String (Name), f64 (Float), bool (Bool). [ok, v, err]
parse_lexer(kind, x) ==
    CASE kind = "Name" -> [ok |-> TRUE, v |-> x, err |-> ""]
      [] kind = "Float" -> [ok |-> TRUE, v |-> ParseFloat(x), err |-> ""]
      [] kind = "Bool" ->
            IF x = <<"t", "r", "u", "e">> THEN [ok |-> TRUE, v |-> <<TRUE>>, err |-> ""]
            ELSE IF x = <<"f", "a", "l", "s", "e">>
                 THEN [ok |-> TRUE, v |-> <<FALSE>>, err |-> ""]
            ELSE [ok |-> FALSE, v |-> <<>>,
                  err |-> "provided string was not true or false"]

\* The payload a rule's callback decodes from the slice x: [ok, v, err].
\* empty() and line() decode nothing.
Decode(kind, x) ==
    CASE kind = "Int" -> u64_lexer(x)
      [] kind \in {"Name", "Float", "Bool"} -> parse_lexer(kind, x)
      [] OTHER -> [ok |-> TRUE, v |-> <<>>, err |-> ""]

----------------------------------------------------------------------------
(* TokenExtras and the callbacks that use it *)

\* The path main() passes to try_lexer.
lua_path == "./lua/test.lua"

\* impl Default for TokenExtras
TokenExtrasDefault ==
    [line_breaks |-> 1, line_start |-> 0, file_path |-> "",
     before_token_is_separate |-> TRUE, before_token_start |-> 0]

\* TokenExtras::println_err: the line printed, "{path}:{line}: {reason} '{text}'".
\* The entry keeps the span; the text printed is Slice of it.
println_err(ex, span, reason) ==
    [tag |-> "diag", path |-> ex.file_path, line |-> ex.line_breaks,
     reason |-> reason, span |-> span]

\* Fault variant of print_err: the failure is dropped without a line printed.
print_err_silent(ex, span, err) == <<>>

\* print_err: prints through println_err and returns None; the lines printed
print_err(ex, span, err) == <<println_err(ex, span, err)>>

\* line, the callback of Line: the extras after it; it returns Some(line_breaks)
line(ex, span) ==
    [ex EXCEPT !.line_breaks = @ + 1, !.line_start = span[1]]

\* empty, the callback of the punctuation and keyword rules
empty(span, line_breaks) == Token(<<>>, span, line_breaks)

\* Fault variant of on_token: the start recorded is kept through a run of
\* glued non-separators instead of being set by every token.
on_token_run_start(ex, kind, span) ==
    [extras |-> [ex EXCEPT !.before_token_is_separate = is_separate(kind),
                           !.before_token_start =
                               IF ~is_separate(kind) /\ ~ex.before_token_is_separate
                               THEN @ ELSE span[1]],
     out |-> IF ~is_separate(kind) /\ ~ex.before_token_is_separate
             THEN <<println_err(ex, <<ex.before_token_start, span[2]>>,
                                "unknown token")>>
             ELSE <<>>]

\* Fault variant of on_token: the check looks at the current token alone.
on_token_ignores_previous(ex, kind, span) ==
    [extras |-> [ex EXCEPT !.before_token_is_separate = is_separate(kind),
                           !.before_token_start = span[1]],
     out |-> IF ~is_separate(kind)
             THEN <<println_err(ex, <<ex.before_token_start, span[2]>>,
                                "unknown token")>>
             ELSE <<>>]

\* on_token: the extras after it and the lines it prints
on_token(ex, kind, span) ==
    [extras |-> [ex EXCEPT !.before_token_is_separate = is_separate(kind),
                           !.before_token_start = span[1]],
     out |-> IF ~is_separate(kind) /\ ~ex.before_token_is_separate
             THEN <<println_err(ex, <<ex.before_token_start, span[2]>>,
                                "unknown token")>>
             ELSE <<>>]

\* Fault variant of on_err: an item that failed counts as a separator.
on_err_resets(ex) == [ex EXCEPT !.before_token_is_separate = TRUE]

\* The Err arm of try_lexer's loop: the extras after it (it only prints)
on_err(ex) == ex

\* The callback of the rule `kind` on the match `span`, run inside lex.next():
\* [ok, tok, extras, out]. ok is FALSE when the callback returns None, which
\* the lexer turns into an Err item.
Callback(kind, span, ex) ==
    LET x == Slice(span[1], span[2])
        d == Decode(kind, x)
    IN  CASE kind = "Skip" ->
                [ok |-> TRUE, tok |-> <<>>, extras |-> ex, out |-> <<>>]
          [] kind = "Line" ->
                \* line() returns Some(line_breaks), the counter after its
                \* increment: that is all the Line item carries.
                LET ex1 == line(ex, span)
                IN  [ok |-> TRUE, tok |-> <<Token(<<>>, span, ex1.line_breaks)>>,
                     extras |-> ex1, out |-> <<>>]
          [] kind \in {"Comment", "QuotedString"} ->
                [ok |-> TRUE, tok |-> <<string_lexer(x, span, ex.line_breaks)>>,
                 extras |-> ex, out |-> <<>>]
          [] kind \in {"Int", "Name", "Float", "Bool"} ->
                IF d.ok
                THEN [ok |-> TRUE, tok |-> <<Token(d.v, span, ex.line_breaks)>>,
                      extras |-> ex, out |-> <<>>]
                ELSE [ok |-> FALSE, tok |-> <<>>, extras |-> ex,
                      out |-> print_err(ex, span, d.err)]
          [] OTHER ->
                [ok |-> TRUE, tok |-> <<empty(span, ex.line_breaks)>>,
                 extras |-> ex, out |-> <<>>]

\* The end of the item lex.next() yields at offset p.
ItemEnd(p) == LET m == Match(p) IN IF m.len > 0 THEN p + m.len ELSE ErrorEnd(p)

\* Iterator::count on the lexer: the number of items left from offset p.
RECURSIVE count(_)
count(p) == IF p >= Len(content) THEN 0 ELSE 1 + count(ItemEnd(p))

----------------------------------------------------------------------------
(* try_lexer *)

\* File::open(lua_path)?.read_to_string(&mut content)?; Self::lexer(content);
\* lex.extras.file_path = lua_path
Open ==
    /\ pc = "start"
    /\ file_ok
    /\ content' = file_text
    /\ extras' = [TokenExtrasDefault EXCEPT !.file_path = lua_path]
    /\ token_end' = 0
    /\ token_list' = <<>>
    /\ pc' = "scan"
    /\ UNCHANGED <<file_ok, file_text, stdout, result>>

\* File::open(lua_path)? fails: try_lexer returns the error
OpenFail ==
    /\ pc = "start"
    /\ ~file_ok
    /\ pc' = "io_error"
    /\ result' = <<"Err">>
    /\ UNCHANGED <<file_ok, file_text, content, token_end, extras, token_list,
                   stdout>>

\* lex.next() is Some(Ok(token)): the token is printed, checked by on_token
\* and pushed.
NextOk ==
    /\ pc = "scan"
    /\ token_end < Len(content)
    /\ LET m == Match(token_end)
           span == <<token_end, token_end + m.len>>
           cb == Callback(m.kind, span, extras)
           token == [kind |-> m.kind, tok |-> cb.tok]
           r == on_token(cb.extras, m.kind, span)
       IN  /\ m.len > 0
           /\ cb.ok
           /\ token_end' = span[2]
           /\ extras' = r.extras
           /\ token_list' = Append(token_list, token)
           /\ stdout' = stdout \o <<[tag |-> "Ok", item |-> token]>> \o r.out
    /\ UNCHANGED <<file_ok, file_text, content, pc, result>>

\* lex.next() is Some(Err(())) because the rule's callback returned None: the
\* callback has printed its line, the loop prints the item and the error.
NextDecodeErr ==
    /\ pc = "scan"
    /\ token_end < Len(content)
    /\ LET m == Match(token_end)
           span == <<token_end, token_end + m.len>>
           cb == Callback(m.kind, span, extras)
       IN  /\ m.len > 0
           /\ ~cb.ok
           /\ token_end' = span[2]
           /\ extras' = on_err(cb.extras)
           /\ stdout' = stdout \o cb.out \o <<[tag |-> "Err"], [tag |-> "()"]>>
    /\ UNCHANGED <<file_ok, file_text, content, pc, token_list, result>>

\* lex.next() is Some(Err(())) because no rule matches at the cursor.
NextNoMatch ==
    /\ pc = "scan"
    /\ token_end < Len(content)
    /\ Match(token_end).len = 0
    /\ token_end' = ErrorEnd(token_end)
    /\ extras' = on_err(extras)
    /\ stdout' = stdout \o <<[tag |-> "Err"], [tag |-> "()"]>>
    /\ UNCHANGED <<file_ok, file_text, content, pc, token_list, result>>

\* lex.next() is None: the loop ends and try_lexer returns Ok(lex.count()).
Finish ==
    /\ pc = "scan"
    /\ token_end >= Len(content)
    /\ result' = <<count(token_end)>>
    /\ pc' = "done"
    /\ UNCHANGED <<file_ok, file_text, content, token_end, extras, token_list,
                   stdout>>

Next == Open \/ OpenFail \/ NextOk \/ NextDecodeErr \/ NextNoMatch \/ Finish

----------------------------------------------------------------------------
(* The files scanned: every text made of at most MaxPieces pieces of a set, *)
(* and a file that cannot be opened.                                        *)

MaxPieces == 3

RECURSIVE Texts(_, _)
Texts(P, n) ==
    IF n = 0 THEN {<<>>}
    ELSE LET shorter == Texts(P, n - 1)
         IN  shorter \cup {a \o b : a \in shorter, b \in P}

InitWith(P) ==
    /\ \/ file_ok = TRUE /\ file_text \in Texts(P, MaxPieces)
       \/ file_ok = FALSE /\ file_text = <<>>
    /\ content = <<>>
    /\ pc = "start"
    /\ token_end = 0
    /\ extras = TokenExtrasDefault
    /\ token_list = <<>>
    /\ stdout = <<>>
    /\ result = <<>>

\* Numbers, names and punctuation, glued or apart.
AdjacencyPieces ==
    { <<"1", "2", "3">>,
      <<"a", "b", "c">>,
      <<" ">>,
      <<".">>,
      <<".", "5">>,
      <<"0", "x", "2", "A">>,
      <<"@">>,
      <<"9", "9", "9", "9", "9", "9", "9", "9", "9", "9", "9", "9", "9", "9", "9", "9", "9", "9", "9", "9">> }

\* Numbers and names, glued or apart, with no punctuation token.
RunPieces ==
    { <<"1", "2", "3">>,
      <<"a", "b", "c">>,
      <<" ">>,
      <<".", "5">>,
      <<"0", "x", "2", "A">>,
      <<"@">>,
      <<"9", "9", "9", "9", "9", "9", "9", "9", "9", "9", "9", "9", "9", "9", "9", "9", "9", "9", "9", "9">> }

\* Line terminators, and a quoted string that holds one.
LinePieces ==
    { <<"a">>,
      <<"\n">>,
      <<"\r">>,
      <<"\f">>,
      <<"'", "\n", "'">>,
      <<"a", "\n", "b", "\n", "c">>,
      <<"@">>,
      <<"9", "9", "9", "9", "9", "9", "9", "9", "9", "9", "9", "9", "9", "9", "9", "9", "9", "9", "9", "9">> }

\* Comments and quoted strings, with backslashes.
CommentPieces ==
    { <<"-", "-">>,
      <<" ", "s", "u", "m">>,
      <<"\\">>,
      <<"\n">>,
      <<"'", "s", "'">>,
      <<"l", "o", "c", "a", "l", " ", "x", " ", "=", " ", "1", "0", " ", "+", " ", "5", " ", "-", "-", " ", "s", "u", "m", "\n">>,
      <<"@">>,
      <<"9", "9", "9", "9", "9", "9", "9", "9", "9", "9", "9", "9", "9", "9", "9", "9", "9", "9", "9", "9">> }

\* Reserved words and the identifiers that start with one.
WordPieces ==
    { <<"e", "n", "d">>,
      <<"i", "n", "g">>,
      <<"d", "o">>,
      <<"_", "i", "t">>,
      <<"f", "o", "r">>,
      <<"m", "a", "t">>,
      <<"t", "r", "u", "e">>,
      <<" ">>,
      <<"@">>,
      <<"9", "9", "9", "9", "9", "9", "9", "9", "9", "9", "9", "9", "9", "9", "9", "9", "9", "9", "9", "9">> }

\* Integer literals around u64::MAX.
NumberPieces ==
    { <<"9", "9", "9", "9", "9", "9", "9", "9", "9", "9", "9", "9", "9", "9", "9", "9", "9", "9", "9", "9">>,
      <<"1", "8", "4", "4", "6", "7", "4", "4", "0", "7", "3", "7", "0", "9", "5", "5", "1", "6", "1", "5">>,
      <<"1", "8", "4", "4", "6", "7", "4", "4", "0", "7", "3", "7", "0", "9", "5", "5", "1", "6", "1", "6">>,
      <<"0", "x">>,
      <<"1">>,
      <<"a">>,
      <<" ">>,
      <<"@">> }

Init == InitWith(AdjacencyPieces)
Spec == Init /\ [][Next]_vars

InitRuns == InitWith(RunPieces)
SpecRuns == InitRuns /\ [][Next]_vars

InitLines == InitWith(LinePieces)
SpecLines == InitLines /\ [][Next]_vars

InitComments == InitWith(CommentPieces)
SpecComments == InitComments /\ [][Next]_vars

InitWords == InitWith(WordPieces)
SpecWords == InitWords /\ [][Next]_vars

InitNumbers == InitWith(NumberPieces)
SpecNumbers == InitNumbers /\ [][Next]_vars

----------------------------------------------------------------------------
(* What the properties below read from a state *)

Kind(j) == token_list[j].kind
NonSeparator(j) == ~is_separate(Kind(j))
HasToken(j) == token_list[j].tok # <<>>
Tok(j) == token_list[j].tok[1]
TokText(j) == Slice(Tok(j).span[1], Tok(j).span[2])

\* The lines of stdout that are "unknown token" diagnostics, and those that
\* report a literal that failed to decode.
IsUnknown(i) == stdout[i].tag = "diag" /\ stdout[i].reason = "unknown token"
IsDecodeFailure(i) == stdout[i].tag = "diag" /\ stdout[i].reason # "unknown token"

\* The number of tokens printed up to line i of stdout. on_token prints right
\* after its token is printed, so this is the index in token_list of the
\* token a diagnostic at line i was raised for.
TokensPrinted(i) == Cardinality({k \in 1..i : stdout[k].tag = "Ok"})

\* The "unknown token" diagnostics raised for token j.
UnknownFor(j) == {i \in DOMAIN stdout : IsUnknown(i) /\ TokensPrinted(i) = j}

Kinds == [j \in DOMAIN token_list |-> Kind(j)]

----------------------------------------------------------------------------
\* C1: an "unknown token" diagnostic is raised for a token exactly when it is
\* a non-separator and the token produced right before it is one too, once;
\* "123abc" gives Int, Name and one diagnostic, "123 abc" gives the two tokens
\* around the whitespace token and no diagnostic.
AdjacencyDiagnosticExact ==
    /\ \A i \in DOMAIN stdout : IsUnknown(i) => TokensPrinted(i) >= 1
    /\ \A j \in DOMAIN token_list :
          Cardinality(UnknownFor(j)) =
              IF NonSeparator(j) /\ j > 1 /\ NonSeparator(j - 1) THEN 1 ELSE 0
    /\ pc = "done" /\ content = <<"1", "2", "3", "a", "b", "c">> =>
          /\ Kinds = <<"Int", "Name">>
          /\ Cardinality({i \in DOMAIN stdout : IsUnknown(i)}) = 1
    /\ pc = "done" /\ content = <<"1", "2", "3", " ", "a", "b", "c">> =>
          /\ Kinds = <<"Int", "Skip", "Name">>
          /\ {i \in DOMAIN stdout : stdout[i].tag = "diag"} = {}

\* "123abc" was scanned: two glued tokens, one diagnostic over the whole text.
GluedIntNameReported ==
    /\ pc = "done"
    /\ content = <<"1", "2", "3", "a", "b", "c">>
    /\ Len(token_list) = 2
    /\ \E i \in UnknownFor(2) : stdout[i].span = <<0, 6>>

----------------------------------------------------------------------------
\* The kinds the specification calls non-separators: identifiers, numbers,
\* booleans and the sixteen keywords.
KeywordKinds ==
    {"Function", "End", "Local", "Break", "Do", "While", "If", "Else", "Elseif",
     "Then", "Repeat", "Until", "For", "Goto", "And", "Or"}

DocumentedNonSeparators == {"Name", "Int", "Float", "Bool"} \cup KeywordKinds

\* C2: is_separate is false for exactly Name, Int, Float, Bool and the
\* keywords, so an "unknown token" diagnostic is only ever raised between two
\* tokens of those kinds, never for punctuation next to a name or a number.
SeparatorClassification ==
    /\ \A j \in DOMAIN token_list :
          is_separate(Kind(j)) = (Kind(j) \notin DocumentedNonSeparators)
    /\ \A j \in DOMAIN token_list :
          UnknownFor(j) # {} =>
              /\ Kind(j) \in DocumentedNonSeparators
              /\ j > 1 /\ Kind(j - 1) \in DocumentedNonSeparators

----------------------------------------------------------------------------
\* The scan the lexer would make of the same text with integers of unbounded
\* width, so that no literal fails to decode: its items from offset p on, at
\* line ln, each with its span. An item no rule matches is [kind |-> ""].
UnboundedValue(x) ==
    LET hex == Len(x) >= 2 /\ SubSeq(x, 1, 2) = <<"0", "x">>
        digits == IF hex THEN SubSeq(x, 3, Len(x)) ELSE x
        radix == IF hex THEN 16 ELSE 10
        F[i \in 0..Len(digits)] ==
            IF i = 0 THEN <<>> ELSE MulAdd(F[i - 1], radix, ToDigit(digits[i], radix))
    IN  F[Len(digits)]

RECURSIVE ReferenceScan(_, _)
ReferenceScan(p, ln) ==
    IF p >= Len(content) THEN <<>>
    ELSE LET m == Match(p)
             span == <<p, p + m.len>>
             x == Slice(span[1], span[2])
             ln1 == IF m.kind = "Line" THEN ln + 1 ELSE ln
             tok == CASE m.kind = "Skip" -> <<>>
                      [] m.kind = "Int" -> <<Token(UnboundedValue(x), span, ln1)>>
                      [] OTHER -> Callback(m.kind, span,
                                           [TokenExtrasDefault EXCEPT
                                                !.line_breaks = ln]).tok
         IN  IF m.len = 0
             THEN <<[kind |-> "", tok |-> <<>>, span |-> <<p, ErrorEnd(p)>>]>>
                  \o ReferenceScan(ErrorEnd(p), ln)
             ELSE <<[kind |-> m.kind, tok |-> tok, span |-> span]>>
                  \o ReferenceScan(span[2], ln1)

\* The spans of the literals reported as failing to decode.
FailedSpans == {stdout[i].span : i \in {k \in DOMAIN stdout : IsDecodeFailure(k)}}

\* C3: a literal that fails to decode is reported once, adds no token and is
\* passed over: the finished scan holds exactly the tokens of the scan without
\* the failure (same kind, payload, line and span, same order), less the
\* literals that do not fit a u64, and one diagnostic for each of those;
\* "99999999999999999999" gives no token and one diagnostic, u64::MAX itself
\* one Int and none.
DecodeFailureIsLocal ==
    pc = "done" =>
        LET ref == ReferenceScan(0, 1)
            tooBig == {k \in DOMAIN ref :
                          /\ ref[k].kind = "Int"
                          /\ ~FitsU64(ref[k].tok[1].v)}
            kept == SelectSeq(ref, LAMBDA r :
                        r.kind # "" /\ r.span \notin FailedSpans)
        IN  /\ token_end = Len(content)
            /\ FailedSpans = {ref[k].span : k \in tooBig}
            /\ \A k \in tooBig :
                  Cardinality({i \in DOMAIN stdout :
                      IsDecodeFailure(i) /\ stdout[i].span = ref[k].span}) = 1
            /\ Len(token_list) = Len(kept)
            /\ \A j \in DOMAIN token_list :
                  /\ Kind(j) = kept[j].kind
                  /\ token_list[j].tok = kept[j].tok
            /\ content = <<"9", "9", "9", "9", "9", "9", "9", "9", "9", "9", "9", "9", "9", "9", "9", "9", "9", "9", "9", "9">> =>
                  /\ token_list = <<>>
                  /\ Cardinality({i \in DOMAIN stdout : stdout[i].tag = "diag"}) = 1
            /\ content = <<"1", "8", "4", "4", "6", "7", "4", "4", "0", "7", "3", "7", "0", "9", "5", "5", "1", "6", "1", "5">> =>
                  /\ token_list = <<[kind |-> "Int",
                                     tok |-> <<Token(U64Max, <<0, 20>>, 1)>>]>>
                  /\ {i \in DOMAIN stdout : stdout[i].tag = "diag"} = {}

\* A literal one past u64::MAX was dropped and the name after it produced.
OverflowThenName ==
    /\ pc = "done"
    /\ content = <<"1", "8", "4", "4", "6", "7", "4", "4", "0", "7", "3", "7", "0", "9", "5", "5", "1", "6", "1", "6", " ", "a">>
    /\ Kinds = <<"Skip", "Name">>
    /\ Tok(2) = Token(<<"a">>, <<21, 22>>, 1)
    /\ Cardinality({i \in DOMAIN stdout : IsDecodeFailure(i)}) = 1

----------------------------------------------------------------------------
\* C4: try_lexer returns the number of tokens the scan produced, whitespace
\* and line tokens aside: 7 for "local x = 10 + 5 -- sum\n".
ReturnsTokenCount ==
    pc = "done" =>
        result = <<Len(SelectSeq(token_list,
                                 LAMBDA t : t.kind \notin {"Skip", "Line"}))>>

----------------------------------------------------------------------------
\* The line terminators of the source that start before offset p, "\r\n"
\* being one.
TerminatorsBefore(p) ==
    Cardinality({i \in 0..(p - 1) :
        /\ At(i) \in Terminator
        /\ ~(At(i) = "\n" /\ At(i - 1) = "\r")})

\* C5: the line counter starts at 1 and only grows, and the line of every
\* token is 1 plus the number of line terminators of the source before the
\* token's start.
LineIsTerminatorsBefore ==
    /\ extras.line_breaks >= 1
    /\ \A j \in DOMAIN token_list :
          HasToken(j) /\ Kind(j) # "Line" =>
              Tok(j).line = 1 + TerminatorsBefore(Tok(j).span[1])

----------------------------------------------------------------------------
HexChars == Digits \cup {"a", "b", "c", "d", "e", "f", "A", "B", "C", "D", "E", "F"}

\* C6: a literal "0x" and hex digits is one Int token over the whole literal,
\* decoded with radix 16: "0x2A" is Int(42) at [0, 4) and nothing is reported.
HexLiteralIsOneInt ==
    /\ \A j \in DOMAIN token_list :
          Kind(j) = "Int" /\ Len(TokText(j)) > 2
                          /\ SubSeq(TokText(j), 1, 2) = <<"0", "x">> =>
              At(Tok(j).span[2]) \notin HexChars
    /\ pc = "done" /\ content = <<"0", "x", "2", "A">> =>
          /\ token_list = <<[kind |-> "Int", tok |-> <<Token(<<42>>, <<0, 4>>, 1)>>]>>
          /\ {i \in DOMAIN stdout : stdout[i].tag = "diag"} = {}

----------------------------------------------------------------------------
\* C7: the payload of a Comment token is the text matched, from "--" to the
\* last character before the line terminator, unchanged.
CommentPayloadIsRawText ==
    \A j \in DOMAIN token_list : Kind(j) = "Comment" => Tok(j).v = TokText(j)

----------------------------------------------------------------------------
\* The kind of a word [_a-zA-Z][_0-9a-zA-Z]*: its keyword's when it is a
\* reserved word, Bool for true and false, else Name.
WordKind(x) ==
    LET same == {i \in DOMAIN TextRules : TextRules[i].text = x}
    IN  IF same = {} THEN "Name" ELSE TextRules[CHOOSE i \in same : TRUE].kind

WordKinds == KeywordKinds \cup {"Bool", "Name"}

\* C8: a keyword, Bool or Name token covers its whole word (the character
\* after it continues no identifier), and its kind is the keyword's or Bool
\* exactly when the word is that reserved word: "end" is End, "ending" is one
\* Name.
ReservedWordsOnlyOnIdenticalText ==
    \A j \in DOMAIN token_list :
        Kind(j) \in WordKinds =>
            /\ At(Tok(j).span[2]) \notin NameChar
            /\ Kind(j) = WordKind(TokText(j))
            /\ Kind(j) = "Name" => Tok(j).v = TokText(j)

\* "ending" was scanned as one Name.
EndingIsOneName ==
    /\ pc = "done"
    /\ content = <<"e", "n", "d", "i", "n", "g">>
    /\ Kinds = <<"Name">>
    /\ Tok(1) = Token(<<"e", "n", "d", "i", "n", "g">>, <<0, 6>>, 1)

----------------------------------------------------------------------------
\* The start of the run of glued non-separators that token j ends: the start
\* of the first token of the longest stretch of non-separators up to j.
RECURSIVE RunStart(_)
RunStart(j) ==
    IF j > 1 /\ NonSeparator(j - 1) THEN RunStart(j - 1) ELSE Tok(j).span[1]

\* C9 as written: every "unknown token" diagnostic spans from the start of
\* the first token of the run of glued non-separators to the end of the token
\* checked.
DiagnosticSpansRun ==
    \A j \in DOMAIN token_list :
        \A i \in UnknownFor(j) :
            stdout[i].span = <<RunStart(j), Tok(j).span[2]>>

\* C9 as the code has it: every "unknown token" diagnostic spans from the
\* start of the token produced right before the one checked to the end of the
\* one checked, which is the start of the run only for a run's second token.
DiagnosticSpansPreviousToken ==
    \A j \in DOMAIN token_list :
        \A i \in UnknownFor(j) :
            /\ j > 1
            /\ HasToken(j - 1)
            /\ stdout[i].span = <<Tok(j - 1).span[1], Tok(j).span[2]>>

\* "123abc.5" was scanned: a run of three, whose second diagnostic starts at
\* the Name, not at the Int.
RunOfThreeReported ==
    /\ pc = "done"
    /\ content = <<"1", "2", "3", "a", "b", "c", ".", "5">>
    /\ Kinds = <<"Int", "Name", "Float">>
    /\ \E i \in UnknownFor(2) : stdout[i].span = <<0, 6>>
    /\ \E i \in UnknownFor(3) : stdout[i].span = <<3, 8>>

----------------------------------------------------------------------------
\* A step of the loop that yields an Err item.
ErrStep ==
    /\ pc = "scan" /\ pc' = "scan"
    /\ token_end' > token_end
    /\ token_list' = token_list

\* A step of the loop that yields a token.
OkStep ==
    /\ pc = "scan" /\ pc' = "scan"
    /\ Len(token_list') = Len(token_list) + 1

\* C10: an item that fails leaves before_token_is_separate and
\* before_token_start as they were, so the two always describe the last token
\* produced, and the next non-separator is reported exactly when that token
\* is a non-separator, from that token's start.
ErrorKeepsAdjacencyState ==
    /\ [][ErrStep =>
            /\ extras'.before_token_is_separate = extras.before_token_is_separate
            /\ extras'.before_token_start = extras.before_token_start]_vars
    /\ [](extras.before_token_is_separate =
            (token_list = <<>> \/ is_separate(Kind(Len(token_list)))))
    /\ [][OkStep /\ ~is_separate(token_list'[Len(token_list')].kind) =>
            LET n == Len(token_list)
                new == {i \in DOMAIN stdout' : i > Len(stdout) /\
                            stdout'[i].tag = "diag"}
            IN  IF n > 0 /\ NonSeparator(n)
                THEN \E i \in new :
                        /\ new = {i}
                        /\ stdout'[i].reason = "unknown token"
                        /\ stdout'[i].span = <<Tok(n).span[1], token_end'>>
                ELSE new = {}]_vars

\* "123@abc" was scanned: the Name after the failed "@" is reported against
\* the Int, over a span that holds the "@".
FailedItemInsideReport ==
    /\ pc = "done"
    /\ content = <<"1", "2", "3", "@", "a", "b", "c">>
    /\ Kinds = <<"Int", "Name">>
    /\ \E i \in UnknownFor(2) : stdout[i].span = <<0, 7>>

====
